---------------------------- MODULE Spec2Model ----------------------------
(***************************************************************************)
(* Model of lib/python/qmk/cli/xap/docs.py: the layered merge of XAP       *)
(* definition trees (_merge_ordered_dicts), the three section renderers    *)
(* and the driver loop xap_generate_docs.                                  *)
(*                                                                         *)
(* Python objects live in a heap: a dict or a list is an object with an    *)
(* address, and a value is a scalar or a reference to an object, so that   *)
(* two names for one object (target[k] = v) are visible in the model.      *)
(***************************************************************************)
EXTENDS Integers, Sequences, FiniteSets, TLC

VARIABLES
    heap,       \* the Python heap: a sequence of objects, address = index
    pc,         \* position of the run
    m_in,       \* merge harness: <<existing, incoming>> values handed to _merge_ordered_dicts
    m_orig,     \* merge harness: the two trees as they were read
    m_res,      \* merge harness: the outcome of the call
    files,      \* driver: what get_xap_definition_files() yields, [stem, tree] each
    idx,        \* driver: number of files taken from the iterator
    overall,    \* driver: the cumulative tree (a value), or None
    loaded,     \* driver: the value hjson.load returned for each file read
    docs_list,  \* driver: output paths appended so far
    out,        \* driver: files on disk, in order of opening: [name, body]
    rendered,   \* driver: per layer, the renderers that were called
    dump,       \* driver: what print(hjson.dumps(overall)) printed, or NoDump
    index,      \* driver: the entries of the index document, in order
    rc          \* driver: process outcome, -1 while running

vars == <<heap, pc, m_in, m_orig, m_res, files, idx, overall, loaded,
          docs_list, out, rendered, dump, index, rc>>

---------------------------------------------------------------------------
(* Values and objects                                                      *)

RESET == "!reset!"

\* A scalar is a str.  A string cannot be scanned character by character
\* here, so a str read from a definition file carries, next to its text s,
\* what str.strip (st), str.rstrip (rs) and repr (q) make of it.
Str(x, rstripped, stripped, quoted) ==
    [s |-> x, st |-> stripped, rs |-> rstripped, q |-> quoted]
\* a str with no outer whitespace and no character that repr escapes
Scalar(x) == Str(x, x, x, "'" \o x \o "'")
\* A section text built by a renderer: it is only ever stripped and written.
Text(x, stripped) == [s |-> x, st |-> stripped]
Ref(a) == [r |-> a]
None == [none |-> TRUE]

IsRef(v) == "r" \in DOMAIN v
IsScalar(v) == "s" \in DOMAIN v
\* a dict of either class: an OrderedDict [d |-> items], or a plain dict
\* [d |-> items, plain |-> TRUE] as the literal of _update_response_flags makes
IsMapping(h, v) == IsRef(v) /\ "d" \in DOMAIN h[v.r]
\* isinstance(v, OrderedDict)
IsDict(h, v) == IsMapping(h, v) /\ "plain" \notin DOMAIN h[v.r]
IsList(h, v) == IsRef(v) /\ "l" \in DOMAIN h[v.r]

\* Allocation of a new object: its address is the next free index.
Alloc(h, obj) == [heap |-> Append(h, obj), v |-> Ref(Len(h) + 1)]

\* k in d
HasKey(h, a, k) == \E i \in 1..Len(h[a].d) : h[a].d[i].k = k
KeyIndex(h, a, k) == CHOOSE i \in 1..Len(h[a].d) : h[a].d[i].k = k
\* d[k]
GetItem(h, a, k) == h[a].d[KeyIndex(h, a, k)].v
\* d[k] = v : an existing key keeps its position, a new key goes last
SetItem(h, a, k, v) ==
    IF HasKey(h, a, k)
    THEN [h EXCEPT ![a].d[KeyIndex(h, a, k)].v = v]
    ELSE [h EXCEPT ![a].d = Append(@, [k |-> k, v |-> v])]
\* del d[k]
DelItem(h, a, k) ==
    LET i == KeyIndex(h, a, k)
        d == h[a].d
    IN [h EXCEPT ![a].d = SubSeq(d, 1, i - 1) \o SubSeq(d, i + 1, Len(d))]

\* Outcome of a call that may raise: the heap it leaves, and the exception.
Ok(h) == [heap |-> h, err |-> ""]
Raise(h, e) == [heap |-> h, err |-> e]


---------------------------------------------------------------------------
(* _merge_ordered_dicts                                                    *)

\* v[0] == '!reset!'
ResetFirst_anywhere(elems) ==
    \E i \in 1..Len(elems) : IsScalar(elems[i]) /\ elems[i].s = RESET
ResetFirst(elems) == IsScalar(elems[1]) /\ elems[1].s = RESET

\* "!reset!" in v
HasReset_never(h, v) == FALSE
HasReset(h, v) == HasKey(h, v.r, RESET)

\* the argument list of the recursive call: [target[k], v]
MergeArgs_swapped(cur, v) == <<v, cur>>
MergeArgs(cur, v) == <<cur, v>>

\* elif k in target and isinstance(v, list): ...
\* v[0] of an empty list raises IndexError; target[k] + v raises TypeError
\* unless target[k] is a list too (str + list, OrderedDict + list).
add_entry_list(h, target, k, v) ==
    LET new == h[v.r].l
        cur == GetItem(h, target, k)
    IN IF Len(new) = 0 THEN Raise(h, "IndexError")
       ELSE IF ResetFirst(new)
       THEN LET a == Alloc(h, [l |-> Tail(new)])
            IN Ok(SetItem(a.heap, target, k, a.v))
       ELSE IF IsList(h, cur)
       THEN LET a == Alloc(h, [l |-> h[cur.r].l \o new])
            IN Ok(SetItem(a.heap, target, k, a.v))
       ELSE Raise(h, "TypeError")

RECURSIVE merge_ordered_dicts(_, _)
RECURSIVE merge_dicts(_, _, _, _)
RECURSIVE merge_items(_, _, _, _)
RECURSIVE add_entry(_, _, _, _)

\* def add_entry(target, k, v).  A plain dict is no OrderedDict and no list:
\* it is bound as it is, like a scalar.
add_entry(h, target, k, v) ==
    IF HasKey(h, target, k) /\ IsDict(h, v)
    THEN LET s1 == IF HasReset(h, v)
                   THEN Ok(SetItem(h, target, k, v))
                   ELSE LET m == merge_ordered_dicts(h, MergeArgs(GetItem(h, target, k), v))
                        IN IF m.err # ""
                           THEN Raise(m.heap, m.err)
                           ELSE Ok(SetItem(m.heap, target, k, m.res))
         IN IF s1.err # "" THEN s1
            ELSE LET tk == GetItem(s1.heap, target, k)
                 IN IF HasKey(s1.heap, tk.r, RESET)
                    THEN Ok(DelItem(s1.heap, tk.r, RESET))
                    ELSE s1
    ELSE IF HasKey(h, target, k) /\ IsList(h, v)
    THEN add_entry_list(h, target, k, v)
    ELSE Ok(SetItem(h, target, k, v))

\* for (k,v) in d.items(): add_entry(result, k, v)
merge_items(h, result, items, i) ==
    IF i > Len(items) THEN Ok(h)
    ELSE LET r == add_entry(h, result, items[i].k, items[i].v)
         IN IF r.err # "" THEN r
            ELSE merge_items(r.heap, result, items, i + 1)

\* for d in dicts: ...   (d.items() of a value that is no dict raises AttributeError)
merge_dicts(h, result, dicts, di) ==
    IF di > Len(dicts) THEN [heap |-> h, err |-> "", res |-> Ref(result)]
    ELSE IF ~IsMapping(h, dicts[di])
    THEN [heap |-> h, err |-> "AttributeError", res |-> None]
    ELSE LET r == merge_items(h, result, h[dicts[di].r].d, 1)
         IN IF r.err # "" THEN [heap |-> r.heap, err |-> r.err, res |-> None]
            ELSE merge_dicts(r.heap, result, dicts, di + 1)

\* def _merge_ordered_dicts(dicts): result = OrderedDict(); ...; return result
merge_ordered_dicts(h, dicts) ==
    LET a == Alloc(h, [d |-> <<>>])
    IN merge_dicts(a.heap, a.v.r, dicts, 1)

---------------------------------------------------------------------------
(* Trees as plain values: what a file holds, what hjson.dumps prints       *)

\* hjson.load builds fresh objects for a tree, children first: the objects
\* of a tree take the addresses after base, its root the last of them.
NKids(t) == IF "l" \in DOMAIN t THEN Len(t.l) ELSE Len(t.d)
Kid(t, j) == IF "l" \in DOMAIN t THEN t.l[j] ELSE t.d[j].v

RECURSIVE Size(_)
RECURSIVE KidsSize(_, _)
\* the number of objects of a tree
Size(t) == IF IsScalar(t) THEN 0 ELSE 1 + KidsSize(t, 1)
KidsSize(t, j) == IF j > NKids(t) THEN 0 ELSE Size(Kid(t, j)) + KidsSize(t, j + 1)

\* the value that stands for tree t once loaded after base
ValueAt(t, base) == IF IsScalar(t) THEN t ELSE Ref(base + Size(t))

RECURSIVE KidVals(_, _, _)
\* the elements or items of the root object, from child j on
KidVals(t, base, j) ==
    IF j > NKids(t) THEN <<>>
    ELSE LET v == ValueAt(Kid(t, j), base)
         IN <<IF "l" \in DOMAIN t THEN v ELSE [k |-> t.d[j].k, v |-> v]>>
            \o KidVals(t, base + Size(Kid(t, j)), j + 1)

RECURSIVE Objs(_, _)
RECURSIVE KidObjs(_, _, _)
\* the objects of tree t, in order of allocation
Objs(t, base) ==
    IF IsScalar(t) THEN <<>>
    ELSE KidObjs(t, base, 1)
         \o <<IF "l" \in DOMAIN t THEN [l |-> KidVals(t, base, 1)]
                                   ELSE [d |-> KidVals(t, base, 1)]>>
KidObjs(t, base, j) ==
    IF j > NKids(t) THEN <<>>
    ELSE Objs(Kid(t, j), base) \o KidObjs(t, base + Size(Kid(t, j)), j + 1)

Load(h, t) == [heap |-> h \o Objs(t, Len(h)), v |-> ValueAt(t, Len(h))]

RECURSIVE Snap(_, _)
RECURSIVE SnapElems(_, _, _)
RECURSIVE SnapItems(_, _, _)
\* The content of a value: the tree with every reference followed.
Snap(h, v) ==
    IF ~IsRef(v) THEN v
    ELSE IF "l" \in DOMAIN h[v.r]
    THEN [l |-> SnapElems(h, h[v.r].l, 1)]
    ELSE [d |-> SnapItems(h, h[v.r].d, 1)]

SnapElems(h, elems, i) ==
    IF i > Len(elems) THEN <<>>
    ELSE <<Snap(h, elems[i])>> \o SnapElems(h, elems, i + 1)

SnapItems(h, items, i) ==
    IF i > Len(items) THEN <<>>
    ELSE <<[k |-> items[i].k, v |-> Snap(h, items[i].v)]>> \o SnapItems(h, items, i + 1)

\* Lookups in a plain tree
THas(t, k) == "d" \in DOMAIN t /\ \E i \in 1..Len(t.d) : t.d[i].k = k
TGet(t, k) == t.d[CHOOSE i \in 1..Len(t.d) : t.d[i].k = k].v
TKeys(t) == {t.d[i].k : i \in 1..Len(t.d)}
TIsDict(t) == "d" \in DOMAIN t
TIsList(t) == "l" \in DOMAIN t
TDel(t, k) == [d |-> SelectSeq(t.d, LAMBDA e : e.k # k)]

---------------------------------------------------------------------------
(* Strings: characters, their code points, str comparison                  *)

\* ord(c) of the characters that occur in keys and file names
Ord(c) ==
    CASE c = "!" -> 33 [] c = "-" -> 45 [] c = "." -> 46
      [] c = "0" -> 48 [] c = "1" -> 49 [] c = "2" -> 50 [] c = "3" -> 51
      [] c = "8" -> 56 [] c = "9" -> 57 [] c = "T" -> 84 [] c = "_" -> 95
      [] c = "a" -> 97 [] c = "b" -> 98 [] c = "c" -> 99 [] c = "d" -> 100
      [] c = "e" -> 101 [] c = "i" -> 105 [] c = "k" -> 107 [] c = "l" -> 108
      [] c = "m" -> 109 [] c = "n" -> 110 [] c = "o" -> 111 [] c = "p" -> 112
      [] c = "r" -> 114 [] c = "s" -> 115 [] c = "t" -> 116 [] c = "u" -> 117
      [] c = "x" -> 120

\* the characters of the key strings of the model
Chars(k) ==
    CASE k = RESET -> <<"!", "r", "e", "s", "e", "t", "!">>
      [] k = "bool" -> <<"b", "o", "o", "l">>
      [] k = "u8" -> <<"u", "8">>
      [] k = "Token" -> <<"T", "o", "k", "e", "n">>
      [] k = "intro" -> <<"i", "n", "t", "r", "o">>
      [] k = "a" -> <<"a">>
      [] k = "b" -> <<"b">>

RECURSIVE CharsLess(_, _)
\* a < b for two str values, given as their characters
CharsLess(a, b) ==
    IF Len(b) = 0 THEN FALSE
    ELSE IF Len(a) = 0 THEN TRUE
    ELSE IF Ord(a[1]) # Ord(b[1]) THEN Ord(a[1]) < Ord(b[1])
    ELSE CharsLess(Tail(a), Tail(b))

RECURSIVE JoinChars(_)
JoinChars(cs) == IF Len(cs) = 0 THEN "" ELSE cs[1] \o JoinChars(Tail(cs))

RECURSIVE InsertSorted(_, _)
\* sorted(): insertion by the str key c of each element, equal keys keep their order
InsertSorted(sorted, x) ==
    IF Len(sorted) = 0 THEN <<x>>
    ELSE IF CharsLess(x.c, sorted[1].c) THEN <<x>> \o sorted
    ELSE <<sorted[1]>> \o InsertSorted(Tail(sorted), x)

RECURSIVE SortedByKey(_)
SortedByKey(xs) ==
    IF Len(xs) = 0 THEN <<>>
    ELSE InsertSorted(SortedByKey(SubSeq(xs, 1, Len(xs) - 1)), xs[Len(xs)])

Reversed(xs) == [i \in 1..Len(xs) |-> xs[Len(xs) + 1 - i]]

---------------------------------------------------------------------------
(* Section renderers                                                       *)

RECURSIVE Repr(_, _)
RECURSIVE ReprElems(_, _)
RECURSIVE ReprItems(_, _, _)

\* ", ".join(repr(x) for x in elems)
ReprElems(h, elems) ==
    IF Len(elems) = 0 THEN ""
    ELSE Repr(h, elems[1])
         \o (IF Len(elems) = 1 THEN "" ELSE ", " \o ReprElems(h, Tail(elems)))

\* the items of a dict as repr prints them: ('k', v) in an OrderedDict,
\* 'k': v in a plain dict (keys are plain words)
ReprItems(h, items, ordered) ==
    IF Len(items) = 0 THEN ""
    ELSE (IF ordered
          THEN "('" \o items[1].k \o "', " \o Repr(h, items[1].v) \o ")"
          ELSE "'" \o items[1].k \o "': " \o Repr(h, items[1].v))
         \o (IF Len(items) = 1 THEN "" ELSE ", " \o ReprItems(h, Tail(items), ordered))

\* repr(v): 'text', [x, ...], OrderedDict([('k', x), ...]) or {'k': x, ...}
Repr(h, v) ==
    IF IsScalar(v) THEN v.q
    ELSE IF IsList(h, v) THEN "[" \o ReprElems(h, h[v.r].l) \o "]"
    ELSE IF IsDict(h, v)
    THEN (IF Len(h[v.r].d) = 0 THEN "OrderedDict()"
          ELSE "OrderedDict([" \o ReprItems(h, h[v.r].d, TRUE) \o "])")
    ELSE "{" \o ReprItems(h, h[v.r].d, FALSE) \o "}"

\* f'{v}': a str as it is, a list or a dict as its repr
Format(h, v) == IF IsScalar(v) THEN v.s ELSE Repr(h, v)
\* f'{v}'.rstrip()
FormatRStrip(h, v) == IF IsScalar(v) THEN v.rs ELSE Repr(h, v)

\* sorted(defs.items(), key=lambda x: x[0])
SortedItems(items) ==
    LET keyed == SortedByKey([i \in 1..Len(items) |-> [c |-> Chars(items[i].k), x |-> items[i]]])
    IN [i \in 1..Len(items) |-> keyed[i].x]

RECURSIVE JoinRows(_, _)
\* "\n".join(f'| _{k}_ | {v} |' ...)
JoinRows(h, items) ==
    IF Len(items) = 0 THEN ""
    ELSE "| _" \o items[1].k \o "_ | " \o Format(h, items[1].v) \o " |"
         \o (IF Len(items) = 1 THEN "" ELSE "\n" \o JoinRows(h, Tail(items)))

\* the table text and its strip()
TableText(h, items) ==
    LET head == "| Name | Definition |\n| -- | -- |"
        desc_str == JoinRows(h, SortedItems(items))
    IN Text(head \o "\n" \o desc_str \o "\n",
            IF desc_str = "" THEN head ELSE head \o "\n" \o desc_str)

\* overall['documentation'][key] = text
SetSection(h, ov, key, text) ==
    IF ~HasKey(h, ov.r, "documentation") THEN Raise(h, "KeyError")
    ELSE LET doc == GetItem(h, ov.r, "documentation")
         IN IF ~IsMapping(h, doc) THEN Raise(h, "TypeError")
            ELSE Ok(SetItem(h, doc.r, key, text))

\* the body shared by _update_type_docs and _update_term_definitions
RenderTable(h, ov, src, dst) ==
    IF ~HasKey(h, ov.r, src) THEN Raise(h, "KeyError")
    ELSE LET defs == GetItem(h, ov.r, src)
         IN IF ~IsMapping(h, defs) THEN Raise(h, "AttributeError")
            ELSE SetSection(h, ov, dst, TableText(h, h[defs.r].d))

update_type_docs(h, ov) == RenderTable(h, ov, "type_docs", "!type_docs!")
update_term_definitions(h, ov) == RenderTable(h, ov, "term_definitions", "!term_definitions!")

\* str(n)
Digit(n) == CASE n = 0 -> "0" [] n = 1 -> "1" [] n = 2 -> "2" [] n = 3 -> "3"
              [] n = 4 -> "4" [] n = 5 -> "5" [] n = 6 -> "6" [] n = 7 -> "7"

NumBits == 8

RECURSIVE FillFlags(_, _, _)
\* for n in range(0,8): if str(n) not in flags: flags[str(n)] = {name: "-", description: "-"}
FillFlags(h, flags, n) ==
    IF n >= NumBits THEN h
    ELSE IF HasKey(h, flags, Digit(n)) THEN FillFlags(h, flags, n + 1)
    ELSE LET a == Alloc(h, [d |-> <<[k |-> "name", v |-> Scalar("-")],
                                    [k |-> "description", v |-> Scalar("-")]>>,
                            plain |-> TRUE])
         IN FillFlags(SetItem(a.heap, flags, Digit(n), a.v), flags, n + 1)

\* what reading flags[str(n)]['name'] for n = 7..0 and joining raises, if anything
NamesError(h, flags) ==
    LET bad == {n \in 0..(NumBits - 1) :
                   LET e == GetItem(h, flags, Digit(n))
                   IN ~IsMapping(h, e) \/ ~HasKey(h, e.r, "name")}
        first == CHOOSE n \in bad : \A o \in bad : o <= n
    IN IF bad # {}
       THEN (IF IsMapping(h, GetItem(h, flags, Digit(first))) THEN "KeyError" ELSE "TypeError")
       ELSE IF \E n \in 0..(NumBits - 1) :
                  ~IsScalar(GetItem(h, GetItem(h, flags, Digit(n)).r, "name"))
       THEN "TypeError"
       ELSE ""

BitName(h, flags, n) == GetItem(h, GetItem(h, flags, Digit(n)).r, "name").s

RECURSIVE JoinNames(_, _, _)
\* " | ".join(flags[str(n)]['name'] for n in range(7,-1,-1)), from bit n down
JoinNames(h, flags, n) ==
    BitName(h, flags, n) \o (IF n = 0 THEN "" ELSE " | " \o JoinNames(h, flags, n - 1))

RECURSIVE JoinBits(_, _)
\* " | ".join(f'Bit {n}' ...) and "|".join('--' ...), from bit n down
JoinBits(n, header) ==
    (IF header THEN "Bit " \o Digit(n) ELSE "--")
    \o (IF n = 0 THEN "" ELSE (IF header THEN " | " ELSE "|") \o JoinBits(n - 1, header))

\* a named bit whose record has no description
DescError(h, flags) ==
    IF \E n \in 0..(NumBits - 1) :
          /\ BitName(h, flags, n) # "-"
          /\ ~HasKey(h, GetItem(h, flags, Digit(n)).r, "description")
    THEN "KeyError" ELSE ""

\* the bullet line of bit n, f'\n* `Bit {n}`: {desc}', as it is or with the
\* whitespace at its end removed (a blank description takes the space after
\* the colon with it).  The source wraps "Bit n" in backquotes, a character a
\* string literal cannot hold here: an apostrophe stands for it.
BitLine(h, flags, n, rstrip) ==
    LET desc == GetItem(h, GetItem(h, flags, Digit(n)).r, "description")
        head == "\n* 'Bit " \o Digit(n) \o "':"
    IN IF ~rstrip THEN head \o " " \o Format(h, desc)
       ELSE IF FormatRStrip(h, desc) = "" THEN head
       ELSE head \o " " \o FormatRStrip(h, desc)

\* the bit of the last bullet line: the lowest bit with a name, -1 if none
LastNamed(h, flags) ==
    LET named == {n \in 0..(NumBits - 1) : BitName(h, flags, n) # "-"}
    IN IF named = {} THEN -1 ELSE CHOOSE n \in named : \A o \in named : n <= o

RECURSIVE BitDescriptions(_, _, _, _)
\* for n in range(7,-1,-1): if name != '-': ... + the bullet line of bit n;
\* with the line of bit last stripped at its end
BitDescriptions(h, flags, n, last) ==
    (IF BitName(h, flags, n) # "-" THEN BitLine(h, flags, n, n = last) ELSE "")
    \o (IF n = 0 THEN "" ELSE BitDescriptions(h, flags, n - 1, last))

\* the section text and its strip(): the text opens with "|", so strip() takes
\* the whitespace at the end, up to the last character of the last bullet
\* line, or of the table when no bit has a name
FlagsText(h, flags) ==
    LET table == "| " \o JoinBits(NumBits - 1, TRUE) \o " |\n"
                 \o "|" \o JoinBits(NumBits - 1, FALSE) \o "|\n"
                 \o "| " \o JoinNames(h, flags, NumBits - 1) \o " |"
        descs == BitDescriptions(h, flags, NumBits - 1, -1)
        last == LastNamed(h, flags)
    IN Text(table \o "\n" \o descs \o "\n",
            IF last = -1 THEN table
            ELSE table \o "\n" \o BitDescriptions(h, flags, NumBits - 1, last))

\* def _update_response_flags(overall)
update_response_flags(h, ov) ==
    IF ~HasKey(h, ov.r, "response_flags") THEN Raise(h, "KeyError")
    ELSE LET rf == GetItem(h, ov.r, "response_flags")
         IN IF ~IsMapping(h, rf) THEN Raise(h, "TypeError")
            ELSE IF ~HasKey(h, rf.r, "bits") THEN Raise(h, "KeyError")
            ELSE LET bits == GetItem(h, rf.r, "bits")
                 IN IF ~IsMapping(h, bits) THEN Raise(h, "TypeError")
                    ELSE LET h1 == FillFlags(h, bits.r, 0)
                         IN IF NamesError(h1, bits.r) # "" THEN Raise(h1, NamesError(h1, bits.r))
                            ELSE IF DescError(h1, bits.r) # "" THEN Raise(h1, DescError(h1, bits.r))
                            ELSE SetSection(h1, ov, "!response_flags!", FlagsText(h1, bits.r))

Renderers == <<"type_docs", "term_definitions", "response_flags">>

CallRenderer(h, ov, name) ==
    CASE name = "type_docs" -> update_type_docs(h, ov)
      [] name = "term_definitions" -> update_term_definitions(h, ov)
      [] name = "response_flags" -> update_response_flags(h, ov)

\* if 'type_docs' in overall: ...
Gate_always(h, ov, name) == TRUE
Gate(h, ov, name) == HasKey(h, ov.r, name)

RECURSIVE RenderFrom(_, _, _, _)
\* the body of the try block from the n-th gate on: the heap it leaves, the
\* renderers it called, and the exception that ended it
RenderFrom(h, ov, n, called) ==
    IF n > Len(Renderers) THEN [heap |-> h, err |-> "", called |-> called]
    ELSE IF ~Gate(h, ov, Renderers[n]) THEN RenderFrom(h, ov, n + 1, called)
    ELSE LET r == CallRenderer(h, ov, Renderers[n])
         IN IF r.err # ""
            THEN [heap |-> r.heap, err |-> r.err, called |-> called \cup {Renderers[n]}]
            ELSE RenderFrom(r.heap, ov, n + 1, called \cup {Renderers[n]})

---------------------------------------------------------------------------
(* Document assembly                                                       *)

\* for e in overall['documentation']['order']: the entries iterated
OrderEntries(h, order) ==
    IF IsList(h, order) THEN h[order.r].l
    ELSE IF IsMapping(h, order) THEN [i \in 1..Len(h[order.r].d) |-> Scalar(h[order.r].d[i].k)]
    ELSE [i \in 1..Len(Chars(order.s)) |-> Scalar(Chars(order.s)[i])]

RECURSIVE WriteSections(_, _, _, _, _)
\* out_file.write(overall['documentation'][e].strip()); out_file.write('\n\n')
WriteSections(h, doc, entries, i, body) ==
    IF i > Len(entries) THEN [body |-> body, err |-> ""]
    ELSE IF ~IsScalar(entries[i]) THEN [body |-> body, err |-> "TypeError"]
    ELSE IF ~HasKey(h, doc, entries[i].s) THEN [body |-> body, err |-> "KeyError"]
    ELSE IF ~IsScalar(GetItem(h, doc, entries[i].s)) THEN [body |-> body, err |-> "AttributeError"]
    ELSE WriteSections(h, doc, entries, i + 1,
                       body \o GetItem(h, doc, entries[i].s).st \o "\n\n")

\* the with block of the layer's document: what the file holds when it is
\* closed, and the exception that left the block
WriteLayerDoc(h, ov) ==
    IF ~HasKey(h, ov.r, "documentation") THEN [body |-> "", err |-> "KeyError"]
    ELSE LET doc == GetItem(h, ov.r, "documentation")
         IN IF ~IsMapping(h, doc) THEN [body |-> "", err |-> "TypeError"]
            ELSE IF ~HasKey(h, doc.r, "order") THEN [body |-> "", err |-> "KeyError"]
            ELSE WriteSections(h, doc.r, OrderEntries(h, GetItem(h, doc.r, "order")), 1, "")

\* f"{file.stem}.md"
DocName(stem) == stem \o <<".", "m", "d">>

\* PurePath.stem: the name up to its last dot
PathStem(name) ==
    LET dots == {i \in 1..Len(name) : name[i] = "."}
        i == CHOOSE j \in dots : \A o \in dots : o <= j
    IN IF dots # {} /\ 1 < i /\ i < Len(name) THEN SubSeq(name, 1, i - 1) ELSE name

\* file.stem[4:]
Version(name) == SubSeq(PathStem(name), 5, Len(PathStem(name)))

\* sorted(docs_list): Path.__lt__ compares the parts of two paths as str; the
\* documents share their directory, so their names decide.
SortedPaths(docs) ==
    LET keyed == SortedByKey([i \in 1..Len(docs) |-> [c |-> docs[i], x |-> docs[i]]])
    IN [i \in 1..Len(docs) |-> keyed[i].x]

\* reversed(sorted(docs_list))
IndexOrder(docs) == Reversed(SortedPaths(docs))

RECURSIVE IndexLines(_)
IndexLines(docs) ==
    IF Len(docs) = 0 THEN ""
    ELSE "* [XAP Version " \o JoinChars(Version(docs[1])) \o "]("
         \o JoinChars(docs[1]) \o ")\n" \o IndexLines(Tail(docs))

IndexName == <<"x", "a", "p", "_", "p", "r", "o", "t", "o", "c", "o", "l", ".", "m", "d">>

---------------------------------------------------------------------------
(* xap_generate_docs                                                       *)

\* The fold step of line 108 is qmk.xap.update_xap_definitions, whose code is
\* not in docs.py.  It is modelled from the contract of the Layered Merger,
\* merge(existing | null, incoming), on trees as plain values.

\* t with the value v under key k: in place for a key t holds, last otherwise
TSet(t, k, v) ==
    IF THas(t, k)
    THEN [t EXCEPT !.d[CHOOSE j \in 1..Len(t.d) : t.d[j].k = k].v = v]
    ELSE [d |-> Append(t.d, [k |-> k, v |-> v])]

RECURSIVE merge(_, _)
RECURSIVE merge_keys(_, _, _)

\* The rule for a key that existing holds, by the type of the incoming value:
\* a tree with the sentinel key replaces, without that key; a tree without it
\* is merged into the existing tree and the sentinel key stripped from the
\* merge; a sequence that opens with the reset token replaces, without the
\* token; any other sequence, the empty one too, is appended; every other
\* value replaces.  Where the contract names no result (a tree or a sequence
\* over a value of another type) the incoming value replaces.
merge_value(cur, v) ==
    IF TIsDict(v)
    THEN IF THas(v, RESET) THEN TDel(v, RESET)
         ELSE IF TIsDict(cur) THEN TDel(merge(cur, v), RESET)
         ELSE v
    ELSE IF TIsList(v)
    THEN IF ~TIsList(cur) THEN v
         ELSE IF Len(v.l) > 0 /\ IsScalar(v.l[1]) /\ v.l[1].s = RESET
         THEN [l |-> Tail(v.l)]
         ELSE [l |-> cur.l \o v.l]
    ELSE v

\* every key of incoming in turn; a key absent from existing is set directly,
\* whatever the type of its value
merge_keys(res, items, i) ==
    IF i > Len(items) THEN res
    ELSE LET k == items[i].k
             v == items[i].v
         IN merge_keys(TSet(res, k, IF THas(res, k) THEN merge_value(TGet(res, k), v) ELSE v),
                       items, i + 1)

merge(existing, incoming) == merge_keys(existing, incoming.d, 1)

\* update_xap_definitions(original, new): with no original the result is a
\* copy of new; the result is a tree of its own, so that a later change of it
\* never changes a layer
update_xap_definitions_shared(h, original, new) ==
    IF original = None THEN [heap |-> h, res |-> new]
    ELSE LET l == Load(h, merge(Snap(h, original), Snap(h, new)))
         IN [heap |-> l.heap, res |-> l.v]
update_xap_definitions(h, original, new) ==
    LET l == Load(h, IF original = None THEN Snap(h, new)
                     ELSE merge(Snap(h, original), Snap(h, new)))
    IN [heap |-> l.heap, res |-> l.v]

\* for file in get_xap_definition_files():
\*     overall = update_xap_definitions(overall, hjson.load(file.open(...)))
NextFile ==
    /\ pc = "next"
    /\ idx < Len(files)
    /\ LET new == Load(heap, files[idx + 1].tree)
           m == update_xap_definitions(new.heap, overall, new.v)
       IN /\ heap' = m.heap
          /\ loaded' = Append(loaded, new.v)
          /\ overall' = m.res
    /\ pc' = "render"
    /\ idx' = idx + 1
    /\ UNCHANGED <<m_in, m_orig, m_res, files, docs_list, out, rendered, dump, index, rc>>

\* try: the three gated renderers; except: print(hjson.dumps(overall)); exit(1)
Render ==
    /\ pc = "render"
    /\ LET r == RenderFrom(heap, overall, 1, {})
       IN /\ heap' = r.heap
          /\ rendered' = Append(rendered, r.called)
          /\ IF r.err = ""
             THEN pc' = "write" /\ dump' = dump /\ rc' = rc
             ELSE pc' = "failed" /\ dump' = Snap(r.heap, overall) /\ rc' = 1
    /\ UNCHANGED <<m_in, m_orig, m_res, files, idx, overall, loaded, docs_list, out, index>>

\* output_doc = ...; docs_list.append(output_doc); with open(output_doc, "w"): ...
\* An exception in the with block is not caught: the file keeps what was
\* written, the interpreter ends with status 1.
WriteDoc ==
    /\ pc = "write"
    /\ LET name == DocName(files[idx].stem)
           w == WriteLayerDoc(heap, overall)
       IN /\ docs_list' = Append(docs_list, name)
          /\ out' = Append(out, [name |-> name, body |-> w.body])
          /\ IF w.err = ""
             THEN pc' = "next" /\ rc' = rc
             ELSE pc' = "failed" /\ rc' = 1
    /\ UNCHANGED <<heap, m_in, m_orig, m_res, files, idx, overall, loaded, rendered, dump, index>>

\* after the loop: the index document
WriteIndex ==
    /\ pc = "next"
    /\ idx = Len(files)
    /\ LET order == IndexOrder(docs_list)
       IN /\ index' = [i \in 1..Len(order) |-> [ver |-> Version(order[i]), name |-> order[i]]]
          /\ out' = Append(out, [name |-> IndexName,
                                 body |-> "# XAP Protocol Reference\n\n" \o IndexLines(order)])
    /\ pc' = "done"
    /\ rc' = 0
    /\ UNCHANGED <<heap, m_in, m_orig, m_res, files, idx, overall, loaded, docs_list, rendered, dump>>

Next == NextFile \/ Render \/ WriteDoc \/ WriteIndex

---------------------------------------------------------------------------
(* Inputs of the merge harness                                             *)

MaxLen == 2

SeqsUpTo(S, n) == UNION {[1..m -> S] : m \in 0..n}
Opt(k, V) == {<<>>} \cup {<<[k |-> k, v |-> v]>> : v \in V}
DictsOf(A, B, C) == {[d |-> a \o b \o c] : a \in A, b \in B, c \in C}

ScalarVals == {Scalar("1"), Scalar("2")}
ResetToken == Scalar(RESET)
ListsUpTo(n) == {[l |-> q] : q \in SeqsUpTo({Scalar("1"), ResetToken}, n)}
LeafVals == ScalarVals \cup ListsUpTo(MaxLen)
Sentinel == Opt(RESET, {Scalar("true")})
Wrap(T) == {[d |-> <<[k |-> "a", v |-> t]>>] : t \in T}
\* one level: key a holds a scalar or a short list, key b a scalar
Tree0 == DictsOf(Opt("a", ScalarVals \cup ListsUpTo(1)), Opt("b", ScalarVals), Sentinel)
\* two levels: key a holds a scalar, a list or a tree of Tree0
Tree1 == DictsOf(Opt("a", LeafVals \cup Tree0), Opt("b", ScalarVals), Sentinel)
\* three levels: a tree of Tree0 under a.a
MergeTrees == Tree1 \cup Wrap(Wrap(Tree0))

NoCall == [called |-> FALSE, err |-> "", res |-> None]
NoDump == [none |-> TRUE]

DriverIdle ==
    /\ files = <<>> /\ idx = 0 /\ overall = None /\ loaded = <<>>
    /\ docs_list = <<>> /\ out = <<>> /\ rendered = <<>>
    /\ dump = NoDump /\ index = <<>> /\ rc = -1

InitMerge ==
    /\ \E e \in MergeTrees, i \in MergeTrees :
          LET le == Load(<<>>, e)
              li == Load(le.heap, i)
          IN /\ heap = li.heap
             /\ m_in = <<le.v, li.v>>
             /\ m_orig = <<e, i>>
    /\ m_res = NoCall
    /\ pc = "merge"
    /\ DriverIdle

\* _merge_ordered_dicts([existing, incoming])
CallMerge ==
    /\ pc = "merge"
    /\ LET m == merge_ordered_dicts(heap, m_in)
       IN /\ heap' = m.heap
          /\ m_res' = [called |-> TRUE, err |-> m.err, res |-> m.res]
    /\ pc' = "merged"
    /\ UNCHANGED <<m_in, m_orig, files, idx, overall, loaded, docs_list, out,
                   rendered, dump, index, rc>>

NextMerge == CallMerge
SpecMerge == InitMerge /\ [][NextMerge]_vars

---------------------------------------------------------------------------
(* Inputs of the driver                                                    *)

MaxLayers == 2

Entry(k, v) == <<[k |-> k, v |-> v]>>
Dict(items) == [d |-> items]
List(elems) == [l |-> elems]

\* the documentation sub-tree of a layer, if it has one
DocParts ==
    { <<>>,
      Entry("documentation", Dict(Entry("order", List(<<Scalar("intro")>>))
                                  \o Entry("intro", Scalar("Intro")))),
      Entry("documentation", Dict(Entry("order", List(<<Scalar("!response_flags!")>>)))),
      Entry("documentation", Dict(Entry(RESET, Scalar("true"))
                                  \o Entry("order", List(<<Scalar("!type_docs!"),
                                                           Scalar("!term_definitions!")>>)))) }

\* type_docs or term_definitions, if the layer has one; a definition is a
\* str, a list or a tree
DefParts ==
    { <<>>,
      Entry("type_docs", Dict(Entry("u8", Scalar("byte")) \o Entry("bool", Scalar("flag"))
                              \o Entry("a", List(<<Scalar("1")>>)))),
      Entry("term_definitions", Dict(Entry("Token", Scalar("id"))
                                     \o Entry("b", Dict(Entry("b", Scalar("1")))))) }

\* response_flags, if the layer has it; the description ends in a blank
FlagParts ==
    { <<>>,
      Entry("response_flags",
            Dict(Entry("bits", Dict(Entry("3", Dict(Entry("name", Scalar("ERR"))
                                                    \o Entry("description",
                                                             Str("error flag ", "error flag",
                                                                 "error flag", "'error flag '")))))))) }

LayerPool == {Dict(a \o b \o c) : a \in DefParts, b \in FlagParts, c \in DocParts}

Xap == <<"x", "a", "p", "_">>
Prefixes == {Xap, <<"a", "a", "a", "_">>}
Versions == {<<"1">>, <<"2">>, <<"1", "0">>, <<"1", "-", "b">>}
Stems == {p \o v : p \in Prefixes, v \in Versions}
\* the stem of the n-th file when the file names do not matter
StemAt(n) == Xap \o <<Digit(n)>>

PlainLayer == Dict(Entry("documentation", Dict(Entry("order", List(<<Scalar("intro")>>))
                                               \o Entry("intro", Scalar("Intro")))))

DriverStart ==
    /\ heap = <<>> /\ pc = "next" /\ idx = 0 /\ overall = None /\ loaded = <<>>
    /\ docs_list = <<>> /\ out = <<>> /\ rendered = <<>>
    /\ dump = NoDump /\ index = <<>> /\ rc = -1
    /\ m_in = <<>> /\ m_orig = <<>> /\ m_res = NoCall

\* any layers, under file names in ascending order
InitLayers ==
    /\ \E n \in 0..MaxLayers : \E ts \in [1..n -> LayerPool] :
          files = [i \in 1..n |-> [stem |-> StemAt(i), tree |-> ts[i]]]
    /\ DriverStart

\* plain layers, under any distinct file names in any order
InitStems ==
    /\ \E n \in 0..MaxLayers : \E ss \in [1..n -> Stems] :
          /\ \A i, j \in 1..n : i # j => ss[i] # ss[j]
          /\ files = [i \in 1..n |-> [stem |-> ss[i], tree |-> PlainLayer]]
    /\ DriverStart

Init == InitLayers \/ InitStems
Spec == Init /\ [][Next]_vars

---------------------------------------------------------------------------
(* Properties of _merge_ordered_dicts([existing, incoming])                *)

Existing == m_orig[1]
Incoming == m_orig[2]
Returned == m_res.called /\ m_res.err = ""
Merged == Snap(heap, m_res.res)
InBoth(e, i) == TKeys(e) \cap TKeys(i)
\* the recursive call is made for key k: a tree in both, no sentinel in the incoming one
Recurses(e, i, k) ==
    /\ TIsDict(TGet(e, k)) /\ TIsDict(TGet(i, k))
    /\ ~THas(TGet(i, k), RESET)

RECURSIVE SequenceRuleAt(_, _, _)
SequenceRuleAt(e, i, r) ==
    \A k \in InBoth(e, i) :
        LET ev == TGet(e, k)
            iv == TGet(i, k)
        IN /\ (TIsList(ev) /\ TIsList(iv) /\ Len(iv.l) > 0) =>
                 /\ THas(r, k)
                 /\ TGet(r, k) = [l |-> IF iv.l[1] = ResetToken
                                        THEN Tail(iv.l)
                                        ELSE ev.l \o iv.l]
           /\ Recurses(e, i, k) => SequenceRuleAt(ev, iv, TGet(r, k))

\* C1: when the merge returns, every key (at every level the merge recurses
\* into) that holds a sequence in existing and a non-empty sequence in
\* incoming holds the incoming sequence without its first element if that
\* element is the reset token, and otherwise existing followed by the whole
\* of incoming, a reset token at a later position included.
C1_SequenceRule == Returned => SequenceRuleAt(Existing, Incoming, Merged)

\* a merge that appended a sequence whose second element is the reset token
C1_Witness ==
    /\ Returned
    /\ \E k \in InBoth(Existing, Incoming) :
          LET ev == TGet(Existing, k)
              iv == TGet(Incoming, k)
          IN /\ TIsList(ev) /\ TIsList(iv)
             /\ Len(ev.l) > 0 /\ Len(iv.l) = 2
             /\ iv.l[1] # ResetToken /\ iv.l[2] = ResetToken
             /\ TGet(Merged, k) = [l |-> ev.l \o iv.l]

RECURSIVE OverrideAt(_, _, _, _)
\* r is the merge of sub-trees e and i; with sentinelToo the sentinel key
\* counts as a key of e like any other.
OverrideAt(e, i, r, sentinelToo) ==
    /\ \A x \in TKeys(e) \ TKeys(i) :
          (sentinelToo \/ x # RESET) => THas(r, x) /\ TGet(r, x) = TGet(e, x)
    /\ \A x \in TKeys(i) \ TKeys(e) : THas(r, x) /\ TGet(r, x) = TGet(i, x)
    /\ \A x \in InBoth(e, i) :
          /\ IsScalar(TGet(i, x)) => THas(r, x) /\ TGet(r, x) = TGet(i, x)
          /\ Recurses(e, i, x) =>
                THas(r, x) /\ OverrideAt(TGet(e, x), TGet(i, x), TGet(r, x), sentinelToo)
    /\ ~sentinelToo => ~THas(r, RESET)

NestedOverride(sentinelToo) ==
    Returned =>
        \A k \in InBoth(Existing, Incoming) :
            Recurses(Existing, Incoming, k) =>
                OverrideAt(TGet(Existing, k), TGet(Incoming, k), TGet(Merged, k), sentinelToo)

\* C2 as stated: under a key that holds a tree in both (no sentinel in the
\* incoming one) every key only in the existing sub-tree survives with its
\* value, every key only in the incoming one is added, a scalar in both takes
\* the incoming value, at every depth.
C2_Original == NestedOverride(TRUE)

\* C2 as amended: the same for every key other than the sentinel key; a
\* sentinel key that the existing sub-tree still carries is stripped from
\* the merged sub-tree.
C2_NestedOverride == NestedOverride(FALSE)

\* a merge that recursed twice (a, then a.a) and, two levels down, kept a key
\* only the existing tree had and replaced a scalar by the incoming one
C2_Witness ==
    /\ Returned
    /\ THas(Existing, "a") /\ THas(Incoming, "a")
    /\ Recurses(Existing, Incoming, "a")
    /\ LET e1 == TGet(Existing, "a")
           i1 == TGet(Incoming, "a")
       IN /\ THas(e1, "a") /\ THas(i1, "a") /\ Recurses(e1, i1, "a")
          /\ LET ev == TGet(e1, "a")
                 iv == TGet(i1, "a")
             IN /\ THas(ev, "a") /\ ~THas(iv, "a")
                /\ THas(ev, "b") /\ THas(iv, "b")
                /\ TGet(ev, "b") # TGet(iv, "b")
                /\ TGet(TGet(Merged, "a"), "a") =
                       [d |-> <<[k |-> "a", v |-> TGet(ev, "a")],
                                [k |-> "b", v |-> TGet(iv, "b")]>>]

RECURSIVE ResetAt(_, _, _, _)
\* with absentToo the rule is also asked of keys that e does not have
ResetAt(e, i, r, absentToo) ==
    /\ \A k \in TKeys(i) :
          (TIsDict(TGet(i, k)) /\ THas(TGet(i, k), RESET) /\ (absentToo \/ THas(e, k))) =>
              THas(r, k) /\ TGet(r, k) = TDel(TGet(i, k), RESET)
    /\ \A k \in InBoth(e, i) :
          Recurses(e, i, k) => ResetAt(TGet(e, k), TGet(i, k), TGet(r, k), absentToo)

\* C3 as stated: every key whose incoming value is a tree with the sentinel
\* key holds, after the merge, that tree without the sentinel key, whether
\* or not existing had the key.
C3_Original == Returned => ResetAt(Existing, Incoming, Merged, TRUE)

\* C3 as amended: the same for every key that the existing tree already has
\* at the level being merged.
C3_NestedReset == Returned => ResetAt(Existing, Incoming, Merged, FALSE)

\* a reset of a sub-tree that had a key the incoming tree does not have
C3_Witness ==
    /\ Returned
    /\ \E k \in InBoth(Existing, Incoming) :
          LET ev == TGet(Existing, k)
              iv == TGet(Incoming, k)
          IN /\ TIsDict(ev) /\ TIsDict(iv) /\ THas(iv, RESET)
             /\ TKeys(ev) \ TKeys(iv) # {}
             /\ TKeys(iv) # {RESET}
             /\ TGet(Merged, k) = TDel(iv, RESET)

\* C5 as stated: an empty incoming sequence at a key that holds a sequence
\* in existing does not make the merge fail and leaves the existing sequence.
C5_Original ==
    m_res.called =>
        \A k \in InBoth(Existing, Incoming) :
            (TIsList(TGet(Existing, k)) /\ TGet(Incoming, k) = [l |-> <<>>]) =>
                /\ m_res.err = ""
                /\ TGet(Merged, k) = TGet(Existing, k)

RECURSIVE NoEmptySeq(_)
NoEmptySeq(t) ==
    IF TIsList(t) THEN Len(t.l) > 0 /\ \A j \in 1..Len(t.l) : NoEmptySeq(t.l[j])
    ELSE IF TIsDict(t) THEN \A j \in 1..Len(t.d) : NoEmptySeq(t.d[j].v)
    ELSE TRUE

KindChange(ev, iv) ==
    \/ TIsList(iv) /\ ~TIsList(ev)
    \/ TIsDict(iv) /\ ~THas(iv, RESET) /\ ~TIsDict(ev)

\* C10 as stated: when the kind of value under a key changes between
\* existing and incoming (and no sequence is empty), the merge returns.
C10_Original ==
    (m_res.called /\ NoEmptySeq(Existing) /\ NoEmptySeq(Incoming)) =>
        \A k \in InBoth(Existing, Incoming) :
            KindChange(TGet(Existing, k), TGet(Incoming, k)) => m_res.err = ""

\* C9 as stated: after the call both trees handed to the merge hold what
\* they held when they were read.
C9_Original ==
    m_res.called =>
        /\ Snap(heap, m_in[1]) = Existing
        /\ Snap(heap, m_in[2]) = Incoming

---------------------------------------------------------------------------
(* Properties of xap_generate_docs                                         *)

RECURSIVE Reach(_, _)
\* the objects a value leads to
Reach(h, v) ==
    IF ~IsRef(v) THEN {}
    ELSE {v.r} \cup UNION {Reach(h, c) :
             c \in IF "l" \in DOMAIN h[v.r] THEN {h[v.r].l[j] : j \in 1..Len(h[v.r].l)}
                   ELSE {h[v.r].d[j].v : j \in 1..Len(h[v.r].d)}}

FailedAtWrite == pc = "failed" /\ Len(docs_list) = idx

\* documentation.order is a sequence that names a key documentation lacks
MissingSection ==
    /\ overall # None
    /\ THas(Snap(heap, overall), "documentation")
    /\ LET doc == TGet(Snap(heap, overall), "documentation")
       IN /\ THas(doc, "order")
          /\ TIsList(TGet(doc, "order"))
          /\ \E i \in 1..Len(TGet(doc, "order").l) :
                LET e == TGet(doc, "order").l[i]
                IN IsScalar(e) /\ ~THas(doc, e.s)

\* C6 as stated: a run that fails on a missing section ends with a non-zero
\* outcome, has dumped the cumulative tree, and has written no index and no
\* document of a later layer.
C6_Original ==
    (FailedAtWrite /\ MissingSection) =>
        /\ rc # 0
        /\ dump # NoDump
        /\ index = <<>>
        /\ Len(out) = idx

\* C7 as stated: the index has one entry per layer document, in descending
\* order of the version suffix.
C7_Original ==
    pc = "done" =>
        /\ Len(index) = Len(docs_list)
        /\ {index[i].name : i \in 1..Len(index)} = {docs_list[i] : i \in 1..Len(docs_list)}
        /\ \A i, j \in 1..Len(index) :
              i < j => ~CharsLess(index[i].ver, index[j].ver)

\* top-level keys of the cumulative tree after layer i, as the layers give them
KeysUpTo(i) == UNION {TKeys(files[j].tree) : j \in 1..i}
RendererKeys == {Renderers[n] : n \in 1..Len(Renderers)}
\* the rendering pass of layer i ran to its end
PassCompleted(i) == i < Len(rendered) \/ pc \in {"write", "next", "done"} \/ FailedAtWrite

\* C8: in every layer's rendering pass a renderer is called only if its key
\* is among the top-level keys of layers 1..i, and a pass that runs to its
\* end has called every renderer whose key is among them (a pass cut short
\* by a failing renderer ends the run); so a renderer is never called before
\* the layer that introduces its key and is called in every pass after it.
\* After each pass the keys of the cumulative tree are those of layers 1..i.
C8_RendererGating ==
    /\ \A i \in 1..Len(rendered) :
          /\ rendered[i] \subseteq RendererKeys \cap KeysUpTo(i)
          /\ PassCompleted(i) => rendered[i] = RendererKeys \cap KeysUpTo(i)
    /\ (overall # None /\ pc \in {"render", "write", "next", "done"}) =>
          TKeys(Snap(heap, overall)) = KeysUpTo(idx)

\* two layers written, response_flags introduced by the second: its renderer
\* was not called for the first and was called for the second, and another
\* renderer ran in both passes
C8_Witness ==
    /\ Len(rendered) = 2 /\ Len(out) = 2
    /\ "response_flags" \notin rendered[1]
    /\ "response_flags" \in rendered[2]
    /\ "type_docs" \in rendered[1]
    /\ "type_docs" \in rendered[2]
    /\ ~THas(files[2].tree, "type_docs")

=============================================================================
